---- MODULE Spec2Model ----
(***************************************************************************)
(* Model of generate_apple_secret.py: a straight-line script that loads a  *)
(* private key file, builds a JWT header and payload, signs them with      *)
(* jwt.encode and prints the token with its expiry.                        *)
(*                                                                         *)
(* The program counter pc is the source line of the next statement.  The   *)
(* environment is the key file (its presence, permissions and content),    *)
(* the system clock, the local time zone and the installed JWT library.    *)
(***************************************************************************)
EXTENDS Integers, Sequences, FiniteSets, TLC

VARIABLES
    pc,           \* source line of the next statement to execute
    status,       \* "running" | "exited"
    exitStatus,   \* process exit status once exited, -1 while running
    raised,       \* name of the uncaught exception, "none" if none
    raisedAt,     \* source line that raised it, 0 if none
    tz,           \* index into Zones: the local time zone of the process
    keyFile,      \* state of the file at KEY_FILE_PATH
    keyContent,   \* what the file holds when it can be read
    handle,       \* key_file: "unopened" | "open" | "closed"
    openCount,    \* how many times open() returned a handle
    private_key,  \* the string read from the file, "unset" before
    headers,      \* the headers dict
    clock,        \* last reading of the system clock, [sec, tick]
    clockReads,   \* number of clock readings taken
    issued_at,
    expiration,
    payload,
    token,        \* <<>> before jwt.encode returned, <<t>> after
    encodeCalls,  \* record of every call made to jwt.encode
    stdout        \* sequence of the lines printed

vars == <<pc, status, exitStatus, raised, raisedAt, tz, keyFile, keyContent,
          handle, openCount, private_key, headers, clock, clockReads,
          issued_at, expiration, payload, token, encodeCalls, stdout>>

----------------------------------------------------------------------------
(* Configuration, lines 11-14 *)

TEAM_ID == "FW7825XU7W"

KEY_ID == "FU4HB29JKT"

CLIENT_ID == "eg.Kinnect.auth"

KEY_FILE_PATH == "/Users/kyle.pfister/Desktop/AuthKey_FU4HB29JKT.p8"

(* timedelta(days=180), line 29 *)
ValidityDays == 180

SecondsPerDay == 24 * 60 * 60

ValiditySeconds == ValidityDays * SecondsPerDay

----------------------------------------------------------------------------
(* Bounds of the model *)

\* the clock is read with a resolution of 1/TicksPerSecond seconds
TicksPerSecond == 2

\* at most this many clock ticks elapse between the two clock reads
MaxElapsedTicks == 3

----------------------------------------------------------------------------
(* The environment: local time zones as UTC offset tables.  A zone is its  *)
(* offset before the first listed transition and the transitions, each the *)
(* UTC instant from which a new offset applies.                            *)

Zones ==
    << [name |-> "UTC", base |-> 0, trans |-> <<>>],
       [name |-> "America/Chicago", base |-> -18000,
        trans |-> << [at |-> 1762066800, off |-> -21600],
                     [at |-> 1772956800, off |-> -18000],
                     [at |-> 1793516400, off |-> -21600],
                     [at |-> 1805011200, off |-> -18000],
                     [at |-> 1825570800, off |-> -21600] >>],
       [name |-> "Europe/Berlin", base |-> 7200,
        trans |-> << [at |-> 1761440400, off |-> 3600],
                     [at |-> 1774746000, off |-> 7200],
                     [at |-> 1792890000, off |-> 3600],
                     [at |-> 1806195600, off |-> 7200],
                     [at |-> 1824944400, off |-> 3600] >>],
       [name |-> "Australia/Sydney", base |-> 36000,
        trans |-> << [at |-> 1759593600, off |-> 39600],
                     [at |-> 1775318400, off |-> 36000],
                     [at |-> 1791043200, off |-> 39600],
                     [at |-> 1806768000, off |-> 36000],
                     [at |-> 1822492800, off |-> 39600] >>],
       [name |-> "Australia/Lord_Howe", base |-> 37800,
        trans |-> << [at |-> 1759591800, off |-> 39600],
                     [at |-> 1775314800, off |-> 37800],
                     [at |-> 1791041400, off |-> 39600],
                     [at |-> 1806764400, off |-> 37800],
                     [at |-> 1822491000, off |-> 39600] >>] >>

\* the UTC offset in force in zone z at UTC instant u
RECURSIVE OffsetFrom(_, _, _, _)
OffsetFrom(trans, i, cur, u) ==
    IF i > Len(trans) \/ u < trans[i].at
    THEN cur
    ELSE OffsetFrom(trans, i + 1, trans[i].off, u)

UtcOffset(z, u) == OffsetFrom(Zones[z].trans, 1, Zones[z].base, u)

\* time.localtime(u) as seconds since the epoch of the wall clock reading
Local(z, u) == u + UtcOffset(z, u)

----------------------------------------------------------------------------
(* datetime: a naive local date-time is [wall, tick, fold], wall being the *)
(* wall clock reading in seconds since 1970-01-01 00:00:00 of that clock.  *)

MaxFoldSeconds == 24 * 3600

\* datetime.fromtimestamp(t) for clock reading t = [sec, tick], with the
\* fold detection of datetime._fromtimestamp
FromTimestamp(z, t) ==
    LET result == Local(z, t.sec)
        probe1 == Local(z, t.sec - MaxFoldSeconds)
        trans  == result - probe1 - MaxFoldSeconds
        fold   == IF trans < 0 /\ Local(z, t.sec + trans) = result
                  THEN 1 ELSE 0
    IN  [wall |-> result, tick |-> t.tick, fold |-> fold]

\* datetime + timedelta(days=n): field arithmetic on the wall clock, the
\* result always has fold = 0
AddDays(dt, n) ==
    [wall |-> dt.wall + n * SecondsPerDay, tick |-> dt.tick, fold |-> 0]

\* datetime._mktime: solve t = Local(u) for u
Mktime(z, t, fold) ==
    LET a  == Local(z, t) - t
        u1 == t - a
        t1 == Local(z, u1)
        p  == IF fold = 1 THEN u1 + MaxFoldSeconds ELSE u1 - MaxFoldSeconds
        b  == IF t1 = t THEN Local(z, p) - p ELSE t1 - u1
        u2 == t - b
        t2 == Local(z, u2)
    IN  IF t1 = t /\ a = b THEN u1
        ELSE IF t2 = t THEN u2
        ELSE IF t1 = t THEN u1
        ELSE IF fold = 1
             THEN (IF u1 < u2 THEN u1 ELSE u2)
             ELSE (IF u1 > u2 THEN u1 ELSE u2)

\* datetime.timestamp() of a naive datetime: a float, here [sec, tick]
Timestamp(z, dt) == [sec |-> Mktime(z, dt.wall, dt.fold), tick |-> dt.tick]

\* int(x) of a non-negative float [sec, tick]: truncation
IntOf(x) == x.sec

----------------------------------------------------------------------------
(* Calendar fields of a wall clock reading and back (proleptic Gregorian)  *)

CivilFromDays(days) ==
    LET zz  == days + 719468
        era == zz \div 146097
        doe == zz - era * 146097
        yoe == (doe - doe \div 1460 + doe \div 36524 - doe \div 146096) \div 365
        doy == doe - (365 * yoe + yoe \div 4 - yoe \div 100)
        mp  == (5 * doy + 2) \div 153
        d   == doy - (153 * mp + 2) \div 5 + 1
        m   == IF mp < 10 THEN mp + 3 ELSE mp - 9
        y   == yoe + era * 400 + (IF m <= 2 THEN 1 ELSE 0)
    IN  [year |-> y, month |-> m, day |-> d]

DaysFromCivil(y0, m, d) ==
    LET y   == IF m <= 2 THEN y0 - 1 ELSE y0
        era == y \div 400
        yoe == y - era * 400
        doy == (153 * (IF m > 2 THEN m - 3 ELSE m + 9) + 2) \div 5 + d - 1
        doe == yoe * 365 + yoe \div 4 - yoe \div 100 + doy
    IN  era * 146097 + doe - 719468

DigitChars == <<"0", "1", "2", "3", "4", "5", "6", "7", "8", "9">>

DigitChar(n) == DigitChars[n + 1]

DigitValue(c) == (CHOOSE i \in 1..10 : DigitChars[i] = c) - 1

\* zero-padded decimal fields of strftime
TwoDigits(n) == <<DigitChar(n \div 10), DigitChar(n % 10)>>

FourDigits(n) ==
    <<DigitChar(n \div 1000), DigitChar((n \div 100) % 10)>> \o TwoDigits(n % 100)

\* dt.strftime('%Y-%m-%d %H:%M:%S'): tick and fold do not appear in the text
Strftime(dt) ==
    LET days == dt.wall \div SecondsPerDay
        secs == dt.wall % SecondsPerDay
        c    == CivilFromDays(days)
    IN  FourDigits(c.year) \o <<"-">> \o TwoDigits(c.month) \o <<"-">>
        \o TwoDigits(c.day) \o <<" ">> \o TwoDigits(secs \div 3600) \o <<":">>
        \o TwoDigits((secs \div 60) % 60) \o <<":">> \o TwoDigits(secs % 60)

Num2(s, i) == DigitValue(s[i]) * 10 + DigitValue(s[i + 1])

\* datetime.strptime(s, '%Y-%m-%d %H:%M:%S'): a naive datetime, fold = 0
Strptime(s) ==
    LET y == Num2(s, 1) * 100 + Num2(s, 3)
    IN  [wall |-> DaysFromCivil(y, Num2(s, 6), Num2(s, 9)) * SecondsPerDay
                  + Num2(s, 12) * 3600 + Num2(s, 15) * 60 + Num2(s, 18),
         tick |-> 0, fold |-> 0]

\* mutant: the expiry formatted with utcfromtimestamp instead of fromtimestamp
FormatExpiryUtc(z, e) == Strftime([wall |-> e, tick |-> 0, fold |-> 0])

\* the text printed on line 56 for an expiry timestamp e
FormatExpiry(z, e) == Strftime(FromTimestamp(z, [sec |-> e, tick |-> 0]))

----------------------------------------------------------------------------
(* Inputs *)

\* states of the file at KEY_FILE_PATH: absent, not readable by the user,
\* readable but not decodable as text, readable
KeyFileStates == {"missing", "denied", "undecodable", "readable"}

\* contents of a readable key file
KeyContents == {"empty", "garbage", "pem_rsa", "pem_ec_p384", "pem_ec_p256"}

\* distances, in seconds, of the sampled clock readings from the instant
\* that lies 180 days before a zone transition
TransitionDeltas ==
    {-7201, -3601, -3600, -1800, -1, 0, 1, 1800, 3599, 3600, 7200}

\* clock readings sampled for zone z: around 180 days before each of its
\* transitions, around the transitions themselves, and three ordinary days
ClockSeconds(z) ==
    LET tr == Zones[z].trans
    IN  {1775822400, 1780000000, 1793534400}
        \cup {tr[i].at - ValiditySeconds + d :
                 i \in (2..4) \cap DOMAIN tr, d \in TransitionDeltas}
        \cup {tr[i].at + d : i \in (2..4) \cap DOMAIN tr, d \in {-1, 0, 1800}}

\* the clock reading e ticks after reading t
Elapse(t, e) ==
    [sec  |-> t.sec + (t.tick + e) \div TicksPerSecond,
     tick |-> (t.tick + e) % TicksPerSecond]

----------------------------------------------------------------------------
(* jwt.encode *)

\* what jwt.encode does with the key string under algorithm ES256: the set
\* of its outcomes, "token" or the exception raised.  A well-formed EC key
\* on another curve is signed with by library versions that do not compare
\* the key's curve with the algorithm, and rejected by those that do.
EncodeOutcomes(key) ==
    CASE key = "pem_ec_p256" -> {"token"}
      [] key = "pem_ec_p384" -> {"token", "InvalidKeyError"}
      [] key = "pem_rsa"     -> {"InvalidKeyError"}
      [] OTHER               -> {"ValueError"}

\* the compact token: header (library defaults updated with the headers
\* given), claims, and a signature by key over both
JwtEncode(pl, key, algorithm, hd) ==
    LET header == [typ |-> "JWT", alg |-> hd.alg, kid |-> hd.kid]
    IN  [header |-> header, claims |-> pl,
         sig |-> [key |-> key, alg |-> algorithm, over |-> <<header, pl>>]]

\* jwt.decode(token, public key, algorithms=["ES256"], audience=...): the
\* claims when the signature is by the matching private key over the
\* token's own header and claims, nothing otherwise
JwtDecode(t, publicKeyOf) ==
    IF t.sig.key = publicKeyOf /\ t.sig.over = <<t.header, t.claims>>
       /\ t.header.alg = "ES256" /\ t.sig.alg = t.header.alg
    THEN <<t.claims>>
    ELSE <<>>

----------------------------------------------------------------------------
(* The script *)

NoClock == [sec |-> 0, tick |-> 0]

NoHeaders == [kid |-> "", alg |-> ""]

NoPayload == [iss |-> "", iat |-> 0, exp |-> 0, aud |-> "", sub |-> ""]

Init ==
    /\ pc = 17
    /\ status = "running"
    /\ exitStatus = -1
    /\ raised = "none"
    /\ raisedAt = 0
    /\ tz \in DOMAIN Zones
    /\ keyFile \in KeyFileStates
    /\ keyContent \in (IF keyFile = "readable" THEN KeyContents ELSE {"none"})
    /\ handle = "unopened"
    /\ openCount = 0
    /\ private_key = "unset"
    /\ headers = NoHeaders
    /\ clock = NoClock
    /\ clockReads = 0
    /\ issued_at = 0
    /\ expiration = 0
    /\ payload = NoPayload
    /\ token = <<>>
    /\ encodeCalls = <<>>
    /\ stdout = <<>>

\* an exception nothing catches: the interpreter reports it and the process
\* ends with status 1
Raise(exc) ==
    /\ status' = "exited"
    /\ exitStatus' = 1
    /\ raised' = exc
    /\ raisedAt' = pc
    /\ pc' = pc

\* mutant: the banner of lines 47-52 printed before the call of jwt.encode
NextLineBannerFirst(l) ==
    CASE l = 17 -> 18
      [] l = 18 -> 21
      [] l = 21 -> 28
      [] l = 28 -> 29
      [] l = 29 -> 31
      [] l = 31 -> 47
      [] l = 52 -> 40
      [] l = 40 -> 53
      [] OTHER  -> l + 1

\* the statement that follows the one at line l; 59 is the end of the file
NextLine(l) ==
    CASE l = 17 -> 18
      [] l = 18 -> 21
      [] l = 21 -> 28
      [] l = 28 -> 29
      [] l = 29 -> 31
      [] l = 31 -> 40
      [] l = 40 -> 47
      [] OTHER  -> l + 1

\* the statement completes and control moves to line l
Goto(l) ==
    /\ pc' = l
    /\ UNCHANGED <<status, exitStatus, raised, raisedAt>>

\* mutant: the file opened without a with block and never closed
WithExitLeak(h) == h

\* what leaving the with block does to the handle, normally or by exception
WithExit(h) == "closed"

\* mutant: a failure of open() swallowed, the script going on without a key
OpenKeyFileLenient ==
    /\ status = "running" /\ pc = 17
    /\ IF keyFile \in {"missing", "denied"}
       THEN /\ pc' = 21
            /\ UNCHANGED <<status, exitStatus, raised, raisedAt, handle,
                           openCount>>
       ELSE /\ handle' = "open"
            /\ openCount' = openCount + 1
            /\ pc' = 18
            /\ UNCHANGED <<status, exitStatus, raised, raisedAt>>
    /\ UNCHANGED <<tz, keyFile, keyContent, private_key, headers, clock,
                   clockReads, issued_at, expiration, payload, token,
                   encodeCalls, stdout>>

\* line 17: open(KEY_FILE_PATH, 'r')
OpenKeyFile ==
    /\ status = "running" /\ pc = 17
    /\ CASE keyFile = "missing" ->
              Raise("FileNotFoundError") /\ UNCHANGED <<handle, openCount>>
         [] keyFile = "denied" ->
              Raise("PermissionError") /\ UNCHANGED <<handle, openCount>>
         [] OTHER ->
              /\ handle' = "open"
              /\ openCount' = openCount + 1
              /\ Goto(NextLine(pc))
    /\ UNCHANGED <<tz, keyFile, keyContent, private_key, headers, clock,
                   clockReads, issued_at, expiration, payload, token,
                   encodeCalls, stdout>>

\* line 18 and the end of the with block: private_key = key_file.read()
ReadKeyFile ==
    /\ status = "running" /\ pc = 18
    /\ handle' = WithExit(handle)
    /\ IF keyFile = "undecodable"
       THEN Raise("UnicodeDecodeError") /\ UNCHANGED private_key
       ELSE private_key' = keyContent /\ Goto(NextLine(pc))
    /\ UNCHANGED <<tz, keyFile, keyContent, openCount, headers, clock,
                   clockReads, issued_at, expiration, payload, token,
                   encodeCalls, stdout>>

\* mutant: the header naming another algorithm than the one signed with
HeadersWrongAlg == [kid |-> KEY_ID, alg |-> "HS256"]

\* the dict of lines 21-24
Headers == [kid |-> KEY_ID, alg |-> "ES256"]

\* lines 21-24
BuildHeaders ==
    /\ status = "running" /\ pc = 21
    /\ headers' = Headers
    /\ Goto(NextLine(pc))
    /\ UNCHANGED <<tz, keyFile, keyContent, handle, openCount, private_key,
                   clock, clockReads, issued_at, expiration, payload, token,
                   encodeCalls, stdout>>

\* line 28: issued_at = int(time.time())
ReadIssuedAt ==
    /\ status = "running" /\ pc = 28
    /\ \E s \in ClockSeconds(tz), k \in 0..(TicksPerSecond - 1) :
          clock' = [sec |-> s, tick |-> k]
    /\ clockReads' = clockReads + 1
    /\ issued_at' = IntOf(clock')
    /\ Goto(NextLine(pc))
    /\ UNCHANGED <<tz, keyFile, keyContent, handle, openCount, private_key,
                   headers, expiration, payload, token, encodeCalls, stdout>>

\* the value of line 29's right-hand side when the clock reads t in zone z
Expiration(z, t) ==
    IntOf(Timestamp(z, AddDays(FromTimestamp(z, t), ValidityDays)))

\* line 29: expiration = int((datetime.now() + timedelta(days=180)).timestamp())
ComputeExpiration ==
    /\ status = "running" /\ pc = 29
    /\ \E e \in 0..MaxElapsedTicks : clock' = Elapse(clock, e)
    /\ clockReads' = clockReads + 1
    /\ expiration' = Expiration(tz, clock')
    /\ Goto(NextLine(pc))
    /\ UNCHANGED <<tz, keyFile, keyContent, handle, openCount, private_key,
                   headers, issued_at, payload, token, encodeCalls, stdout>>

\* mutant: issuer and subject exchanged
PayloadSwapped(iat, exp) ==
    [iss |-> CLIENT_ID, iat |-> iat, exp |-> exp,
     aud |-> "https://appleid.apple.com", sub |-> TEAM_ID]

\* the dict of lines 31-37
Payload(iat, exp) ==
    [iss |-> TEAM_ID, iat |-> iat, exp |-> exp,
     aud |-> "https://appleid.apple.com", sub |-> CLIENT_ID]

\* lines 31-37
BuildPayload ==
    /\ status = "running" /\ pc = 31
    /\ payload' = Payload(issued_at, expiration)
    /\ Goto(NextLine(pc))
    /\ UNCHANGED <<tz, keyFile, keyContent, handle, openCount, private_key,
                   headers, clock, clockReads, issued_at, expiration, token,
                   encodeCalls, stdout>>

\* the arguments of the call on lines 40-45
EncodeArgs ==
    [payload |-> payload, key |-> private_key, algorithm |-> "ES256",
     headers |-> headers]

\* lines 40-45: token = jwt.encode(...)
Encode ==
    /\ status = "running" /\ pc = 40
    /\ encodeCalls' = Append(encodeCalls, EncodeArgs)
    /\ \E outcome \in EncodeOutcomes(EncodeArgs.key) :
          IF outcome = "token"
          THEN /\ token' = <<JwtEncode(EncodeArgs.payload, EncodeArgs.key,
                                       EncodeArgs.algorithm, EncodeArgs.headers)>>
               /\ Goto(NextLine(pc))
          ELSE Raise(outcome) /\ UNCHANGED token
    /\ UNCHANGED <<tz, keyFile, keyContent, handle, openCount, private_key,
                   headers, clock, clockReads, issued_at, expiration, payload,
                   stdout>>

\* mutant: line 56 formatting the issue time instead of the expiry
LineExpiryFromIssuedAt(l) ==
    CASE l \in {47, 49, 55, 58} -> [kind |-> "rule", tok |-> <<>>, text |-> <<>>]
      [] l = 48 -> [kind |-> "title", tok |-> <<>>, text |-> <<>>]
      [] l \in {50, 52, 54} -> [kind |-> "blank", tok |-> <<>>, text |-> <<>>]
      [] l = 51 -> [kind |-> "copy", tok |-> <<>>, text |-> <<>>]
      [] l = 53 -> [kind |-> "token", tok |-> token, text |-> <<>>]
      [] l = 56 -> [kind |-> "expires", tok |-> <<>>,
                    text |-> FormatExpiry(tz, issued_at)]
      [] l = 57 -> [kind |-> "reminder", tok |-> <<>>, text |-> <<>>]

\* the line each print statement of lines 47-58 writes
Line(l) ==
    CASE l \in {47, 49, 55, 58} -> [kind |-> "rule", tok |-> <<>>, text |-> <<>>]
      [] l = 48 -> [kind |-> "title", tok |-> <<>>, text |-> <<>>]
      [] l \in {50, 52, 54} -> [kind |-> "blank", tok |-> <<>>, text |-> <<>>]
      [] l = 51 -> [kind |-> "copy", tok |-> <<>>, text |-> <<>>]
      [] l = 53 -> [kind |-> "token", tok |-> token, text |-> <<>>]
      [] l = 56 -> [kind |-> "expires", tok |-> <<>>,
                    text |-> FormatExpiry(tz, expiration)]
      [] l = 57 -> [kind |-> "reminder", tok |-> <<>>, text |-> <<>>]

\* lines 47-58: one print statement
PrintLine ==
    /\ status = "running" /\ pc \in 47..58
    /\ stdout' = Append(stdout, Line(pc))
    /\ Goto(NextLine(pc))
    /\ UNCHANGED <<tz, keyFile, keyContent, handle, openCount, private_key,
                   headers, clock, clockReads, issued_at, expiration, payload,
                   token, encodeCalls>>

\* the end of the script: the interpreter exits with status 0
Exit ==
    /\ status = "running" /\ pc = 59
    /\ status' = "exited"
    /\ exitStatus' = 0
    /\ UNCHANGED <<pc, raised, raisedAt, tz, keyFile, keyContent, handle,
                   openCount, private_key, headers, clock, clockReads,
                   issued_at, expiration, payload, token, encodeCalls, stdout>>

Next ==
    \/ OpenKeyFile
    \/ ReadKeyFile
    \/ BuildHeaders
    \/ ReadIssuedAt
    \/ ComputeExpiration
    \/ BuildPayload
    \/ Encode
    \/ PrintLine
    \/ Exit

Spec == Init /\ [][Next]_vars

----------------------------------------------------------------------------
(* Properties *)

Exited == status = "exited"

Succeeded == Exited /\ exitStatus = 0

Kinds == [i \in DOMAIN stdout |-> stdout[i].kind]

TokenPrinted == \E i \in DOMAIN stdout : stdout[i].kind = "token"

\* C1: once the payload is built, exp - iat is exactly 180 days in seconds,
\* whatever the clock readings, the time zone and the time between the two
\* clock reads.
C1_ExactValidity ==
    payload # NoPayload => payload.exp - payload.iat = 15552000

\* C2: with a key file that is missing or cannot be read, the run fails at
\* the key-load statements with a non-zero exit status, jwt.encode is never
\* called and no token line is ever written.
C2_MissingKeyFails ==
    keyFile \in {"missing", "denied", "undecodable"} =>
        /\ encodeCalls = <<>>
        /\ token = <<>>
        /\ ~TokenPrinted
        /\ pc \in {17, 18}
        /\ Exited => /\ raisedAt \in {17, 18}
                     /\ raised \in {"FileNotFoundError", "PermissionError",
                                    "UnicodeDecodeError"}
                     /\ exitStatus # 0

C2_Witness ==
    /\ keyFile = "missing"
    /\ Exited
    /\ raised = "FileNotFoundError"
    /\ raisedAt = 17

\* C3: with a readable key file whose content is not a valid PEM EC P-256
\* private key, the run fails at jwt.encode with a non-zero exit status,
\* no later statement runs and no token is written.
C3_MalformedKeyFailsAtSigning ==
    (keyFile = "readable" /\ keyContent # "pem_ec_p256") =>
        /\ pc <= 40
        /\ ~TokenPrinted
        /\ Len(encodeCalls) <= 1
        /\ Exited => (raisedAt = 40 /\ exitStatus # 0)

\* C4: an empty key file is rejected at the key-load statements, before
\* the clock is read, the payload is built or jwt.encode is called.
C4_EmptyKeyRejectedAtLoad ==
    (keyFile = "readable" /\ keyContent = "empty") =>
        /\ clockReads = 0
        /\ payload = NoPayload
        /\ encodeCalls = <<>>
        /\ Exited => raisedAt \in {17, 18}

\* C5: in a successful run the claims handed to jwt.encode have exactly the
\* fields iss, iat, exp, aud, sub, with the configured team and client
\* identifiers, Apple's audience and this run's two timestamps; the one
\* token printed is the one made from these claims with the loaded key,
\* and decoding it with the matching public key gives the same claims.
C5_ClaimsSignedAndPrinted ==
    Succeeded =>
        /\ Len(encodeCalls) = 1
        /\ DOMAIN encodeCalls[1].payload = {"iss", "iat", "exp", "aud", "sub"}
        /\ encodeCalls[1].payload.iss = TEAM_ID
        /\ encodeCalls[1].payload.sub = CLIENT_ID
        /\ encodeCalls[1].payload.aud = "https://appleid.apple.com"
        /\ encodeCalls[1].payload.iat = issued_at
        /\ encodeCalls[1].payload.exp = expiration
        /\ encodeCalls[1].key = keyContent
        /\ Cardinality({i \in DOMAIN stdout : stdout[i].kind = "token"}) = 1
        /\ \A i \in DOMAIN stdout :
              stdout[i].kind = "token" =>
                 /\ Len(stdout[i].tok) = 1
                 /\ stdout[i].tok[1].claims = encodeCalls[1].payload
                 /\ stdout[i].tok[1].sig.key = keyContent
                 /\ JwtDecode(stdout[i].tok[1], keyContent)
                       = <<encodeCalls[1].payload>>

C5_Witness ==
    /\ Succeeded
    /\ keyContent = "pem_ec_p256"
    /\ TokenPrinted
    /\ issued_at > 0

\* C6: in a successful run the headers handed to jwt.encode hold
\* alg = "ES256" and kid = the configured key identifier, and the algorithm
\* argument is the same "ES256".
C6_HeaderMatchesAlgorithm ==
    /\ Succeeded => Len(encodeCalls) = 1
    /\ \A i \in DOMAIN encodeCalls :
          /\ encodeCalls[i].headers.alg = "ES256"
          /\ encodeCalls[i].headers.kid = KEY_ID
          /\ encodeCalls[i].algorithm = encodeCalls[i].headers.alg

C6_Witness ==
    /\ Succeeded
    /\ Len(encodeCalls) = 1
    /\ token # <<>>
    /\ token[1].header.kid = KEY_ID

\* the timestamp got back from a printed expiry text in zone z
ReadBack(z, text) == IntOf(Timestamp(z, Strptime(text)))

\* C7: the expiry computed by a run, formatted as on line 56 and parsed back
\* as a local date-time, gives a timestamp within one second of it; every
\* expiry line printed reads back to the exp of the payload.
C7_ExpiryRoundTrip ==
    /\ pc > 29 =>
          LET back == ReadBack(tz, FormatExpiry(tz, expiration))
          IN  back - expiration \in -1..1
    /\ \A i \in DOMAIN stdout :
          stdout[i].kind = "expires" =>
             ReadBack(tz, stdout[i].text) - payload.exp \in -1..1

\* the expiry's wall clock reading occurs twice in the zone (the hour
\* repeated when the clocks go back) and the expiry line has been printed
C7_Witness ==
    /\ \E i \in DOMAIN stdout : stdout[i].kind = "expires"
    /\ \E d \in {1800, 3600} :
          Local(tz, expiration + d) = Local(tz, expiration)

\* the shape YYYY-MM-DD HH:MM:SS
IsDateTimeText(t) ==
    /\ Len(t) = 19
    /\ \A i \in 1..19 :
          CASE i \in {5, 8}   -> t[i] = "-"
            [] i = 11         -> t[i] = " "
            [] i \in {14, 17} -> t[i] = ":"
            [] OTHER          -> \E n \in 1..10 : DigitChars[n] = t[i]

\* C8: a successful run has written, in order, the banner, the token, a
\* blank line, the expiry line and the reminder, the token, the expiry line
\* and the reminder once each; the expiry text has the shape
\* YYYY-MM-DD HH:MM:SS and is the formatted exp of the signed claims; the
\* exit status is 0.
C8_OutputOrder ==
    /\ (Exited /\ raised = "none") => exitStatus = 0
    /\ Succeeded =>
          /\ Kinds = <<"rule", "title", "rule", "blank", "copy", "blank",
                       "token", "blank", "rule", "expires", "reminder",
                       "rule">>
          /\ stdout[7].tok = token
          /\ token # <<>>
          /\ IsDateTimeText(stdout[10].text)
          /\ stdout[10].text = FormatExpiry(tz, token[1].claims.exp)

C8_Witness ==
    /\ Succeeded
    /\ Len(stdout) = 12
    /\ stdout[10].kind = "expires"
    /\ stdout[7].kind = "token"

\* C9: the key file is opened at most once, and the handle is open only
\* between open() and the end of the with block: never at or after the
\* clock read, jwt.encode, the prints or the exit of the process.
C9_HandleClosed ==
    /\ openCount <= 1
    /\ handle = "open" => (status = "running" /\ pc = 18)
    /\ (Exited \/ pc > 18) => handle # "open"

\* the read raised and the handle was closed on the way out
C9_Witness ==
    /\ Exited
    /\ raised = "UnicodeDecodeError"
    /\ openCount = 1
    /\ handle = "closed"

\* C10: nothing is written to standard output before the key is loaded and
\* jwt.encode has returned; a run that fails ends with standard output
\* empty.
C10_NoOutputBeforeSuccess ==
    /\ stdout # <<>> => (private_key # "unset" /\ token # <<>>)
    /\ (Exited /\ exitStatus # 0) => stdout = <<>>

\* jwt.encode raised after the key was loaded
C10_Witness ==
    /\ Exited
    /\ exitStatus = 1
    /\ raisedAt = 40
    /\ private_key # "unset"
    /\ stdout = <<>>

====
